---- MODULE Spec2Model ----
(***************************************************************************)
(* Model of llm-dataset-generator: the response parser                     *)
(* (generator/questions.py), the answer batch (generator/answers.py), the  *)
(* dataset formatter and persistence (generator/utils.py) and the          *)
(* orchestrator (main.py).                                                  *)
(*                                                                         *)
(* A document, a model response and a question are sequences of           *)
(* one-character strings; a Python value whose type varies (None, str,     *)
(* list, dict) is a record [kind, val].                                    *)
(***************************************************************************)
EXTENDS Integers, Sequences, FiniteSets, TLC

\* ------------------------------------------------------------- bounds
\* longest response text the parser is run on exhaustively
MaxLen == 5
\* longest question / answer list the formatter is run on
MaxQA == 2

\* most questions the command line asks for
MaxRequested == 2

\* ------------------------------------------------------- Python values
PyNone == [kind |-> "none", val |-> <<>>]
PyStr(v) == [kind |-> "str", val |-> v]
PyList(v) == [kind |-> "list", val |-> v]
PyDict(v) == [kind |-> "dict", val |-> v]
PyBool(v) == [kind |-> "bool", val |-> v]

\* str.isspace() / regex \s on the modelled alphabet
Whitespace == {" ", "\t", "\n"}
\* regex \d, str.isdigit()
Digit == {"1"}
\* the characters the parser is run on: digit, period, blank, tab, newline,
\* the two bullet characters, the question mark and a letter
Alphabet == {"1", ".", " ", "\t", "\n", "*", "-", "?", "a"}

RECURSIVE SkipWhile(_, _, _)
\* the first position j >= i of t whose character is not in S (Len(t)+1 if none):
\* where a greedy S* started at i stops
SkipWhile(t, i, S) ==
    IF i > Len(t) \/ t[i] \notin S THEN i ELSE SkipWhile(t, i + 1, S)

RECURSIVE SkipBack(_, _, _)
\* the last position j <= i of t whose character is not in S (0 if none)
SkipBack(t, i, S) ==
    IF i < 1 \/ t[i] \notin S THEN i ELSE SkipBack(t, i - 1, S)

\* str.strip(chars): t without its leading and trailing characters in S
StripChars(t, S) ==
    LET a == SkipWhile(t, 1, S)
        b == SkipBack(t, Len(t), S)
    IN  IF a > b THEN <<>> ELSE SubSeq(t, a, b)

\* str.strip()
PyStrip(t) == StripChars(t, Whitespace)

\* c in t
Contains(t, c) == \E i \in 1..Len(t) : t[i] = c

RECURSIVE SplitLines(_)
\* str.splitlines(): the lines of t, without a last empty line
SplitLines(t) ==
    IF t = <<>> THEN <<>>
    ELSE LET e == SkipWhile(t, 1, Alphabet \ {"\n"})
         IN  <<SubSeq(t, 1, e - 1)>> \o SplitLines(SubSeq(t, e + 1, Len(t)))

RECURSIVE CountTokens(_, _)
\* len(t.split()): the number of maximal runs of non-whitespace from i on
CountTokens(t, i) ==
    LET a == SkipWhile(t, i, Whitespace)
    IN  IF a > Len(t) THEN 0
        ELSE 1 + CountTokens(t, SkipWhile(t, a, Alphabet \ Whitespace))

\* ------------------------------------------- parse_questions_from_response
\* one attempt of ^\s*\d+\.\s*(.*) at position i (re.MULTILINE): ^ holds at
\* the start of the text and after a newline; \s* also runs over newlines;
\* (.*) stops before the next newline
MatchAt(t, i) ==
    LET a == SkipWhile(t, i, Whitespace)
        b == SkipWhile(t, a, Digit)
        c == SkipWhile(t, b + 1, Whitespace)
        e == SkipWhile(t, c, Alphabet \ {"\n"})
    IN  IF (i = 1 \/ t[i - 1] = "\n") /\ b > a /\ b <= Len(t) /\ t[b] = "."
        THEN [ok |-> TRUE, group |-> SubSeq(t, c, e - 1), end |-> e]
        ELSE [ok |-> FALSE, group |-> <<>>, end |-> i]

RECURSIVE FindAll(_, _)
\* question_pattern.findall(response_text): the groups of the successive
\* non-overlapping matches, scanning from position i
FindAll(t, i) ==
    IF i > Len(t) THEN <<>>
    ELSE LET m == MatchAt(t, i)
         IN  IF m.ok THEN <<m.group>> \o FindAll(t, m.end)
             ELSE FindAll(t, i + 1)

RECURSIVE PrimaryLoop(_)
\* the loop over the matches: a match that is not blank is stripped of blanks
\* and asterisks and appended
PrimaryLoop(ms) ==
    IF ms = <<>> THEN <<>>
    ELSE LET question == PyStrip(Head(ms))
         IN  (IF question # <<>> THEN <<StripChars(question, {" ", "*"})>> ELSE <<>>)
             \o PrimaryLoop(Tail(ms))

PrimaryQuestions(t) == PrimaryLoop(FindAll(t, 1))

\* re.sub(r"^\s*[\d\.\-\*]+\s*", '', line)
RemoveMarker(line) ==
    LET a == SkipWhile(line, 1, Whitespace)
        b == SkipWhile(line, a, Digit \cup {".", "-", "*"})
        c == SkipWhile(line, b, Whitespace)
    IN  IF b > a THEN SubSeq(line, c, Len(line)) ELSE line

\* FallbackLine with the bug of taking an unmarked line of three words
FallbackLine_ThreeWords(raw) ==
    LET line == PyStrip(raw)
        cleaned_line == RemoveMarker(line)
    IN  IF line # <<>> /\ Len(line) > 2 /\ line[1] \in Digit \cup {"-", "*"}
        THEN IF cleaned_line # <<>> /\ Contains(cleaned_line, "?")
             THEN <<cleaned_line>> ELSE <<>>
        ELSE IF line # <<>> /\ Contains(line, "?") /\ CountTokens(line, 1) >= 3
             THEN <<line>> ELSE <<>>

\* the body of the fallback loop for one line: what it appends
FallbackLine(raw) ==
    LET line == PyStrip(raw)
        cleaned_line == RemoveMarker(line)
    IN  IF line # <<>> /\ Len(line) > 2 /\ line[1] \in Digit \cup {"-", "*"}
        THEN IF cleaned_line # <<>> /\ Contains(cleaned_line, "?")
             THEN <<cleaned_line>> ELSE <<>>
        ELSE IF line # <<>> /\ Contains(line, "?") /\ CountTokens(line, 1) > 3
             THEN <<line>> ELSE <<>>

RECURSIVE FallbackLoop(_)
FallbackLoop(lines) ==
    IF lines = <<>> THEN <<>>
    ELSE FallbackLine(Head(lines)) \o FallbackLoop(Tail(lines))

FallbackQuestions(t) == FallbackLoop(SplitLines(t))

parse_questions_from_response(response_text) ==
    IF response_text = <<>> \/ PyStrip(response_text) = <<>> THEN <<>>
    ELSE LET questions == PrimaryQuestions(response_text)
         IN  IF questions = <<>> /\ response_text # <<>>
             THEN LET potential_questions == FallbackQuestions(response_text)
                  IN  IF potential_questions # <<>> THEN potential_questions
                      ELSE questions
             ELSE questions

\* ------------------------------------------------------------ answers.py
\* the text answers_questions_ollama puts in place of a failed answer
FallbackAnswer == "Error occurred while generating this answer."

\* what ollama.chat does when called for an answer: it raises, or it returns
\* a message whose stripped content is the text
ChatRaises == [raises |-> TRUE, text |-> ""]
ChatReturns(text) == [raises |-> FALSE, text |-> text]
AnswerTexts ==
    {"A1", "A2", "The document does not provide an answer to this question.",
     FallbackAnswer}
AnswerChats == {ChatRaises} \cup {ChatReturns(a) : a \in AnswerTexts}

\* answer_question_ollama makes its model call only past its two guards
AnswerCallsModel(question, context) == context # <<>> /\ question # <<>>

answer_question_ollama(question, context, chat) ==
    IF context = <<>> THEN PyNone
    ELSE IF question = <<>> THEN PyNone
    ELSE IF chat.raises THEN PyNone
    ELSE PyStr(chat.text)

\* AppendAnswer with the bug of skipping a failed answer
AppendAnswer_DropsFailed(answers_questions, answer) ==
    IF answer.kind = "none" THEN answers_questions
    ELSE Append(answers_questions, answer.val)

\* one iteration of the loop of answers_questions_ollama: the list after the
\* answer of the next question is appended
AppendAnswer(answers_questions, answer) ==
    Append(answers_questions,
           IF answer.kind = "none" THEN FallbackAnswer ELSE answer.val)

\* -------------------------------------------------------- utils.py, format
create_default_template(generated_questions, answers_questions) ==
    IF Len(generated_questions) # Len(answers_questions) THEN <<>>
    ELSE [i \in 1..Len(generated_questions) |->
            [input |-> generated_questions[i], output |-> answers_questions[i]]]

\* create_gemma_template with the bug of pairing up to the shorter list
create_gemma_template_Zip(generated_questions, answers_questions) ==
    LET n == IF Len(generated_questions) < Len(answers_questions)
             THEN Len(generated_questions) ELSE Len(answers_questions)
    IN  [k \in 1..(2 * n) |->
            IF k % 2 = 1
            THEN [content |-> generated_questions[(k + 1) \div 2], role |-> "user"]
            ELSE [content |-> answers_questions[k \div 2], role |-> "assistant"]]

create_gemma_template(generated_questions, answers_questions) ==
    IF Len(generated_questions) # Len(answers_questions) THEN <<>>
    ELSE [k \in 1..(2 * Len(generated_questions)) |->
            IF k % 2 = 1
            THEN [content |-> generated_questions[(k + 1) \div 2], role |-> "user"]
            ELSE [content |-> answers_questions[k \div 2], role |-> "assistant"]]

\* create_llama_template with the bug of pairing each question with the
\* answer of the last question
create_llama_template_LastAnswer(generated_questions, answers_questions) ==
    IF Len(generated_questions) # Len(answers_questions)
    THEN [conversations |-> <<>>]
    ELSE [conversations |->
            [k \in 1..(2 * Len(generated_questions)) |->
               IF k % 2 = 1
               THEN [from |-> "human", value |-> generated_questions[(k + 1) \div 2]]
               ELSE [from |-> "gpt",
                     value |-> answers_questions[Len(answers_questions)]]]]

create_llama_template(generated_questions, answers_questions) ==
    IF Len(generated_questions) # Len(answers_questions)
    THEN [conversations |-> <<>>]
    ELSE [conversations |->
            [k \in 1..(2 * Len(generated_questions)) |->
               IF k % 2 = 1
               THEN [from |-> "human", value |-> generated_questions[(k + 1) \div 2]]
               ELSE [from |-> "gpt", value |-> answers_questions[k \div 2]]]]

\* the template names the formatter is run on, and str.lower() on them
TemplateNames == {"default", "gemma", "llama", "LLAMA", "alpaca"}
Lower(template) == IF template = "LLAMA" THEN "llama" ELSE template

\* cfg["SUPPORTED_TEMPLATES"], read from config.yaml when the program starts:
\* the three kinds, the three kinds and one more, a kind in upper case
SupportedConfigs ==
    {{"default", "gemma", "llama"},
     {"default", "gemma", "llama", "alpaca"},
     {"default", "gemma", "LLAMA"}}

\* the kinds create_template has a branch for
Implemented == {"default", "gemma", "llama"}

\* the f-string create_template returns for an unsupported template
ErrorValue(template, supported_templates) ==
    PyStr([prefix |-> "Error:", template |-> template,
           supported |-> supported_templates])

create_template(template, generated_questions, answers_questions, supported_templates) ==
    IF Lower(template) \notin supported_templates
    THEN ErrorValue(template, supported_templates)
    ELSE IF Lower(template) = "default"
    THEN PyList(create_default_template(generated_questions, answers_questions))
    ELSE IF Lower(template) = "gemma"
    THEN PyList(create_gemma_template(generated_questions, answers_questions))
    ELSE IF Lower(template) = "llama"
    THEN PyDict(create_llama_template(generated_questions, answers_questions))
    ELSE PyNone

\* bool(data) of a value create_template returns: a list is true when it has
\* an element, a dict when it has a key, a str when it has a character
Truthy(data) ==
    CASE data.kind = "none" -> FALSE
      [] data.kind = "list" -> data.val # <<>>
      [] data.kind = "dict" -> TRUE
      [] data.kind = "str" -> TRUE

\* ---------------------------------------------------- utils.py, check_ollama
DEFAULT_GEN_OLLAMA_MODEL == "default-gen"
DEFAULT_RET_OLLAMA_MODEL == "default-ret"
ModelNames == {DEFAULT_GEN_OLLAMA_MODEL, DEFAULT_RET_OLLAMA_MODEL, "other"}

\* ollama: whether the serving process answers, whether the second
\* ollama.list() returns, and the models it lists
OllamaStates ==
    [up : BOOLEAN, lists : BOOLEAN, installed : SUBSET ModelNames]

\* check_ollama, were it to look for the two selected models only
check_ollama_SelectedOnly(ollama, model_gen, model_ret, default_gen_model, default_ret_model) ==
    IF ~ollama.up THEN PyNone
    ELSE IF ~ollama.lists THEN PyNone
    ELSE IF model_gen \notin ollama.installed THEN PyNone
    ELSE IF model_ret \notin ollama.installed THEN PyNone
    ELSE PyBool(TRUE)

check_ollama(ollama, model_gen, model_ret, default_gen_model, default_ret_model) ==
    IF ~ollama.up THEN PyNone
    ELSE IF ~ollama.lists THEN PyNone
    ELSE IF model_gen \notin ollama.installed THEN PyNone
    ELSE IF model_ret \notin ollama.installed THEN PyNone
    ELSE IF default_gen_model \notin ollama.installed THEN PyNone
    ELSE IF default_ret_model \notin ollama.installed THEN PyNone
    ELSE PyBool(TRUE)

\* what save_dataset finds on disk: whether os.makedirs, the JSON dump and
\* DataFrame.to_csv go through
DiskStates == [mkdir : BOOLEAN, json : BOOLEAN, csv : BOOLEAN]

\* save_dataset has not been called
NoDisk == [mkdir |-> FALSE, json |-> FALSE, csv |-> FALSE]

\* save_dataset, were the JSON dump outside its try block as os.makedirs is
save_dataset_JsonRaises(file, template, disk) ==
    IF file.kind = "str" /\ file.val.prefix = "Error:"
    THEN [written |-> {}, raised |-> FALSE]
    ELSE IF ~disk.mkdir \/ ~disk.json THEN [written |-> {}, raised |-> TRUE]
    ELSE [written |->
             {"json"}
             \cup (IF Lower(template) = "default" /\ file.kind = "list" /\ disk.csv
                   THEN {"csv"} ELSE {}),
          raised |-> FALSE]

\* save_dataset: the files it leaves behind, and whether it raised (os.makedirs
\* is outside its try blocks)
save_dataset(file, template, disk) ==
    IF file.kind = "str" /\ file.val.prefix = "Error:"
    THEN [written |-> {}, raised |-> FALSE]
    ELSE IF ~disk.mkdir THEN [written |-> {}, raised |-> TRUE]
    ELSE [written |->
             (IF disk.json THEN {"json"} ELSE {})
             \cup (IF Lower(template) = "default" /\ file.kind = "list" /\ disk.csv
                   THEN {"csv"} ELSE {}),
          raised |-> FALSE]

\* ---------------------------------------- questions.py, generate_questions
\* what ollama.chat does when called for the questions: it raises, or it
\* returns one of these texts
QuestionTexts ==
    {<<"1", ".", " ", "a", "?", "\n", "1", ".", " ", "*", "?", "*">>,
     <<"1", ".", " ", "a", "?">>,
     <<"1", ".", "*", "\n", "1", ".", "a", "?">>,
     <<"-", " ", "a", "?", "\n", "-", " ", "a">>,
     <<"a", " ", "a">>,
     <<>>}
QuestionChats ==
    {[raises |-> TRUE, text |-> <<>>]}
    \cup {[raises |-> FALSE, text |-> t] : t \in QuestionTexts}

\* generate_questions_ollama with the bug of cutting the parsed list down to
\* the requested count
generate_questions_ollama_Truncates(content, num_questions, chat) ==
    IF content = <<>> THEN PyNone
    ELSE IF chat.raises THEN PyNone
    ELSE LET questions == parse_questions_from_response(chat.text)
         IN  IF Len(questions) > num_questions
             THEN PyList(SubSeq(questions, 1, num_questions))
             ELSE PyList(questions)

generate_questions_ollama(content, num_questions, chat) ==
    IF content = <<>> THEN PyNone
    ELSE IF chat.raises THEN PyNone
    ELSE LET questions == parse_questions_from_response(chat.text)
         IN  IF questions = <<>> THEN PyList(<<>>) ELSE PyList(questions)

\* get_document_content: None when the file cannot be read, else its text
DocumentContents ==
    {PyNone, PyStr(<<>>), PyStr(<<" ", "\n">>), PyStr(<<"a", " ", "a">>)}

\* ------------------------------------------------------------------ state
VARIABLES
    pc,                  \* where main is; "done" once the process has exited
    cfg_supported,       \* cfg["SUPPORTED_TEMPLATES"]
    args,                \* the parsed command line
    document_content,    \* main's local
    ollama,              \* the serving process check_ollama found
    response,            \* what ollama.chat gave generate_questions_ollama
    generated_questions, \* main's local
    answers_questions,   \* the list answers_questions_ollama is building
    returned,            \* what answer_question_ollama returned, per question
    data,                \* main's local
    calls,               \* the ollama.chat calls made so far, in order
    files,               \* the dataset files written
    failure,             \* the stage that failed, "" if none has
    exit_code,           \* <<>> while running, <<code>> once exited
    stages,              \* the stages main has started, in order
    disk,                \* what save_dataset found on disk
    p_pc, p_text, p_questions,                  \* a run of the parser alone
    f_pc, f_template, f_supported, f_questions, f_answers, f_result
                                                \* a run of the formatter alone

mainVars == <<pc, cfg_supported, args, document_content, ollama, response,
              generated_questions, answers_questions, returned, data, calls,
              files, failure, exit_code, stages, disk>>
parseVars == <<p_pc, p_text, p_questions>>
formatVars == <<f_pc, f_template, f_supported, f_questions, f_answers, f_result>>
vars == <<mainVars, parseVars, formatVars>>

\* the parser and the formatter are not being run alone
ParseIdle == p_pc = "idle" /\ p_text = <<>> /\ p_questions = <<>>
FormatIdle ==
    /\ f_pc = "idle" /\ f_template = "default" /\ f_supported = {}
    /\ f_questions = <<>> /\ f_answers = <<>> /\ f_result = PyNone
\* main is not being run
MainIdle ==
    /\ pc = "idle" /\ cfg_supported = {}
    /\ args = [template |-> "default", model_gen |-> "", model_ret |-> "",
               questions |-> 0]
    /\ document_content = PyNone /\ ollama = [up |-> FALSE, lists |-> FALSE, installed |-> {}]
    /\ response = PyNone
    /\ generated_questions = PyNone /\ answers_questions = <<>>
    /\ returned = <<>> /\ data = PyNone /\ calls = <<>> /\ files = {}
    /\ failure = "" /\ exit_code = <<>>
    /\ stages = <<>> /\ disk = NoDisk

\* ------------------------------------------------------------------ main
\* parse_arguments: --template is one of cfg["SUPPORTED_TEMPLATES"]
Arguments(supported) ==
    [template : supported,
     model_gen : {DEFAULT_GEN_OLLAMA_MODEL, "other"},
     model_ret : {DEFAULT_RET_OLLAMA_MODEL, "other"},
     questions : 1..MaxRequested]

Init ==
    /\ pc = "load"
    /\ cfg_supported \in SupportedConfigs
    /\ args \in Arguments(cfg_supported)
    /\ document_content = PyNone
    /\ ollama = [up |-> FALSE, lists |-> FALSE, installed |-> {}]
    /\ response = PyNone
    /\ generated_questions = PyNone
    /\ answers_questions = <<>>
    /\ returned = <<>>
    /\ data = PyNone
    /\ calls = <<>>
    /\ files = {}
    /\ failure = ""
    /\ exit_code = <<>>
    /\ stages = <<>>
    /\ disk = NoDisk
    /\ ParseIdle /\ FormatIdle

\* sys.exit(arg): None is status 0, an int is that status
SysExit(arg) == IF arg.kind = "none" THEN 0 ELSE arg.val
PyInt(v) == [kind |-> "int", val |-> v]

\* main returns value to sys.exit after stage failed ("" if none did)
Return(value, stage) ==
    /\ pc' = "done"
    /\ exit_code' = <<SysExit(value)>>
    /\ failure' = stage

\* main.py 73-82
LoadDocument ==
    /\ pc = "load"
    /\ stages' = Append(stages, "load")
    /\ UNCHANGED disk
    /\ \E d \in DocumentContents :
        /\ document_content' = d
        /\ IF d.kind = "none" THEN Return(PyInt(1), "document")
           ELSE IF PyStrip(d.val) = <<>> THEN Return(PyInt(1), "empty")
           ELSE pc' = "check" /\ UNCHANGED <<exit_code, failure>>
    /\ UNCHANGED <<cfg_supported, args, ollama, response, generated_questions,
                   answers_questions, returned, data, calls, files>>
    /\ UNCHANGED <<parseVars, formatVars>>

\* main.py 84-85
CheckOllama ==
    /\ pc = "check"
    /\ stages' = Append(stages, "check")
    /\ UNCHANGED disk
    /\ \E o \in OllamaStates :
        /\ ollama' = o
        /\ IF check_ollama(o, args.model_gen, args.model_ret,
                           DEFAULT_GEN_OLLAMA_MODEL, DEFAULT_RET_OLLAMA_MODEL).kind = "none"
           THEN Return(PyNone, "model")
           ELSE pc' = "generate" /\ UNCHANGED <<exit_code, failure>>
    /\ UNCHANGED <<cfg_supported, args, document_content, response,
                   generated_questions, answers_questions, returned, data,
                   calls, files>>
    /\ UNCHANGED <<parseVars, formatVars>>

\* main.py 88-104
GenerateQuestions ==
    /\ pc = "generate"
    /\ stages' = Append(stages, "generate")
    /\ UNCHANGED disk
    /\ \E chat \in QuestionChats :
        LET qs == generate_questions_ollama(document_content.val, args.questions, chat)
        IN  /\ generated_questions' = qs
            /\ response' = IF document_content.val = <<>> \/ chat.raises
                           THEN PyNone ELSE PyStr(chat.text)
            /\ calls' = IF document_content.val # <<>>
                        THEN Append(calls, "generate") ELSE calls
            /\ IF qs.kind = "none" THEN Return(PyInt(1), "generation")
               ELSE IF qs.val = <<>> THEN Return(PyInt(1), "no questions")
               ELSE pc' = "answer" /\ UNCHANGED <<exit_code, failure>>
    /\ UNCHANGED <<cfg_supported, args, document_content, ollama,
                   answers_questions, returned, data, files>>
    /\ UNCHANGED <<parseVars, formatVars>>

\* answers.py 80-92: one iteration of the loop of answers_questions_ollama
AnswerOne ==
    /\ pc = "answer"
    /\ stages' = IF answers_questions = <<>> THEN Append(stages, "answer") ELSE stages
    /\ UNCHANGED disk
    /\ Len(answers_questions) < Len(generated_questions.val)
    /\ \E chat \in AnswerChats :
        LET question == generated_questions.val[Len(answers_questions) + 1]
            answer == answer_question_ollama(question, document_content.val, chat)
        IN  /\ answers_questions' = AppendAnswer(answers_questions, answer)
            /\ returned' = Append(returned, answer)
            /\ calls' = IF AnswerCallsModel(question, document_content.val)
                        THEN Append(calls, Len(answers_questions) + 1) ELSE calls
    /\ UNCHANGED <<pc, cfg_supported, args, document_content, ollama, response,
                   generated_questions, data, files, failure, exit_code>>
    /\ UNCHANGED <<parseVars, formatVars>>

\* answers.py 94 and main.py 114-122: the loop is over
AnswersDone ==
    /\ pc = "answer"
    /\ UNCHANGED <<stages, disk>>
    /\ Len(answers_questions) = Len(generated_questions.val)
    /\ IF answers_questions = <<>> THEN Return(PyInt(1), "answering")
       ELSE pc' = "format" /\ UNCHANGED <<exit_code, failure>>
    /\ UNCHANGED <<cfg_supported, args, document_content, ollama, response,
                   generated_questions, answers_questions, returned, data,
                   calls, files>>
    /\ UNCHANGED <<parseVars, formatVars>>

\* Saveable with the bug of testing the type alone
Saveable_AnyNonString(d) == d.kind # "str"

\* main.py 132: the test that sends data to save_dataset
Saveable(d) == Truthy(d) /\ d.kind # "str"

\* main.py 125-132 and 137-139
FormatDataset ==
    /\ pc = "format"
    /\ stages' = Append(stages, "format")
    /\ UNCHANGED disk
    /\ data' = create_template(args.template, generated_questions.val,
                               answers_questions, cfg_supported)
    /\ IF Saveable(data') THEN pc' = "save" /\ UNCHANGED <<exit_code, failure>>
       ELSE Return(PyInt(1), "formatting")
    /\ UNCHANGED <<cfg_supported, args, document_content, ollama, response,
                   generated_questions, answers_questions, returned, calls, files>>
    /\ UNCHANGED <<parseVars, formatVars>>

\* main.py 134-136, and 148-150 when save_dataset raises
SaveDataset ==
    /\ pc = "save"
    /\ stages' = Append(stages, "save")
    /\ \E found \in DiskStates :
        LET saved == save_dataset(data, args.template, found)
        IN  /\ disk' = found
            /\ files' = saved.written
            /\ IF saved.raised THEN Return(PyInt(1), "exception")
               ELSE Return(PyInt(0), "")
    /\ UNCHANGED <<cfg_supported, args, document_content, ollama, response,
                   generated_questions, answers_questions, returned, data, calls>>
    /\ UNCHANGED <<parseVars, formatVars>>

Next ==
    \/ LoadDocument
    \/ CheckOllama
    \/ GenerateQuestions
    \/ AnswerOne
    \/ AnswersDone
    \/ FormatDataset
    \/ SaveDataset

Spec == Init /\ [][Next]_vars

\* --------------------------------------------------- the parser run alone
\* longer response texts: a numbered list with emphasis, bullets with and
\* without a question mark, unmarked lines of three and of four words
SampleTexts ==
    {<<"1", ".", " ", "a", "?", "\n", "1", ".", " ", "*", "a", " ", "a", "?", "*">>,
     <<"-", " ", "a", " ", "a", "?", "\n", "-", " ", "a">>,
     <<"a", " ", "a", " ", "a", "?", "\n", "a", " ", "a", " ", "a", " ", "a", "?">>,
     <<"a", " ", "a", " ", "a", " ", "a", "?", "\n", "*", " ", "a", "?">>}

\* the response texts: every text of at most MaxLen characters, and the
\* longer ones
Texts == UNION {[1..n -> Alphabet] : n \in 0..MaxLen} \cup SampleTexts

InitParse ==
    /\ p_pc = "input"
    /\ p_text \in Texts
    /\ p_questions = <<>>
    /\ MainIdle /\ FormatIdle

ParseResponse ==
    /\ p_pc = "input"
    /\ p_questions' = parse_questions_from_response(p_text)
    /\ p_pc' = "parsed"
    /\ UNCHANGED <<p_text, mainVars, formatVars>>

NextParse == ParseResponse

SpecParse == InitParse /\ [][NextParse]_vars

\* ------------------------------------------------ the formatter run alone
\* the sequences over S of length at most n
SeqsUpTo(S, n) == UNION {[1..k -> S] : k \in 0..n}

InitFormat ==
    /\ f_pc = "input"
    /\ f_template \in TemplateNames
    /\ f_supported \in SupportedConfigs
    /\ f_questions \in SeqsUpTo({"Q1", "Q2"}, MaxQA)
    /\ f_answers \in SeqsUpTo({"A1", "A2"}, MaxQA)
    /\ f_result = PyNone
    /\ MainIdle /\ ParseIdle

\* create_template is called
FormatTemplate ==
    /\ f_pc = "input"
    /\ f_result' = create_template(f_template, f_questions, f_answers, f_supported)
    /\ f_pc' = "template"
    /\ UNCHANGED <<f_template, f_supported, f_questions, f_answers>>
    /\ UNCHANGED <<mainVars, parseVars>>

\* the function of one kind is called without create_template
FormatDirect ==
    /\ f_pc = "input"
    /\ f_template \in {"default", "gemma", "llama"}
    /\ f_result' =
         CASE f_template = "default" ->
                PyList(create_default_template(f_questions, f_answers))
           [] f_template = "gemma" ->
                PyList(create_gemma_template(f_questions, f_answers))
           [] f_template = "llama" ->
                PyDict(create_llama_template(f_questions, f_answers))
    /\ f_pc' = "direct"
    /\ UNCHANGED <<f_template, f_supported, f_questions, f_answers>>
    /\ UNCHANGED <<mainVars, parseVars>>

NextFormat == FormatTemplate \/ FormatDirect

SpecFormat == InitFormat /\ [][NextFormat]_vars

\* ================================================================ claims
\* answers_questions_ollama has returned
AnsweringOver ==
    \/ pc \in {"format", "save"}
    \/ pc = "done" /\ failure \in {"", "formatting", "exception", "answering"}

\* C1: whenever a stage of the run has failed the process exits with status 1,
\* and status 0 is only the exit of a run in which no stage failed.
C1_FailureExitsOne ==
    pc = "done" =>
        /\ (failure # "" => exit_code = <<1>>)
        /\ (exit_code = <<0>> => failure = "")

\* C2 as stated: the batch returns one answer per question, and position i
\* holds the fallback text if and only if answer_question_ollama failed for
\* question i, otherwise what it returned for question i.
C2_FallbackIffFailed ==
    /\ Len(answers_questions) = Len(returned)
    /\ AnsweringOver => Len(answers_questions) = Len(generated_questions.val)
    /\ \A i \in 1..Len(answers_questions) :
        /\ (answers_questions[i] = FallbackAnswer <=> returned[i].kind = "none")
        /\ (returned[i].kind # "none" => answers_questions[i] = returned[i].val)

\* C2 amended: the batch returns one answer per question, and position i
\* holds the fallback text if answer_question_ollama failed for question i,
\* otherwise what it returned for question i (which can be that same text);
\* this holds of the answers placed so far at every point of the batch.
C2_AnswersAligned ==
    /\ Len(answers_questions) = Len(returned)
    /\ pc = "answer" => Len(answers_questions) <= Len(generated_questions.val)
    /\ AnsweringOver => Len(answers_questions) = Len(generated_questions.val)
    /\ \A i \in 1..Len(answers_questions) :
        answers_questions[i] =
            IF returned[i].kind = "none" THEN FallbackAnswer ELSE returned[i].val

\* C2 witness: a finished batch of two questions, the first failed and the
\* second answered
C2_Witness ==
    /\ AnsweringOver
    /\ Len(answers_questions) = 2
    /\ returned[1].kind = "none" /\ returned[2].kind = "str"
    /\ answers_questions = <<FallbackAnswer, "A1">>

\* the formatter of the kind of f_template has been run on the inputs
FormatterRan ==
    \/ f_pc = "direct"
    \/ f_pc = "template" /\ Lower(f_template) \in f_supported \cap Implemented

\* C3: on question and answer lists of different lengths the formatter of
\* every kind returns its empty result: an empty list for default and gemma,
\* a wrapper with no conversations for llama; no shortened or padded list.
C3_MismatchGivesEmpty ==
    (FormatterRan /\ Len(f_questions) # Len(f_answers)) =>
        IF Lower(f_template) = "llama"
        THEN f_result.kind = "dict" /\ f_result.val = [conversations |-> <<>>]
        ELSE f_result.kind = "list" /\ f_result.val = <<>>

\* C3 witness: the gemma formatter has been run on two questions and one
\* answer and returned its empty list
C3_Witness ==
    /\ f_pc = "direct" /\ f_template = "gemma"
    /\ Len(f_questions) = 2 /\ Len(f_answers) = 1
    /\ f_result = PyList(<<>>)

\* C7: on lists of equal length n the output is index-aligned: default gives
\* n records {input: question i, output: answer i}; gemma gives 2n records,
\* the user record of question i followed by the assistant record of answer
\* i; llama gives one wrapper whose conversations are the 2n entries human
\* question i followed by gpt answer i.
C7_IndexAligned ==
    (FormatterRan /\ Len(f_questions) = Len(f_answers)) =>
        LET n == Len(f_questions)
            kind == Lower(f_template)
        IN  CASE kind = "default" ->
                   /\ f_result.kind = "list" /\ Len(f_result.val) = n
                   /\ \A i \in 1..n :
                        f_result.val[i] =
                            [input |-> f_questions[i], output |-> f_answers[i]]
              [] kind = "gemma" ->
                   /\ f_result.kind = "list" /\ Len(f_result.val) = 2 * n
                   /\ \A i \in 1..n :
                        /\ f_result.val[2 * i - 1] =
                               [content |-> f_questions[i], role |-> "user"]
                        /\ f_result.val[2 * i] =
                               [content |-> f_answers[i], role |-> "assistant"]
              [] kind = "llama" ->
                   /\ f_result.kind = "dict"
                   /\ DOMAIN f_result.val = {"conversations"}
                   /\ Len(f_result.val.conversations) = 2 * n
                   /\ \A i \in 1..n :
                        /\ f_result.val.conversations[2 * i - 1] =
                               [from |-> "human", value |-> f_questions[i]]
                        /\ f_result.val.conversations[2 * i] =
                               [from |-> "gpt", value |-> f_answers[i]]

\* C7 witness: the llama formatter has been run on two different questions
\* and two different answers
C7_Witness ==
    /\ f_pc = "direct" /\ f_template = "llama"
    /\ f_questions = <<"Q1", "Q2">> /\ f_answers = <<"A2", "A1">>
    /\ Len(f_result.val.conversations) = 4

\* r is the error value of create_template: a string that begins with
\* "Error:" and lists the supported kinds
IsErrorValue(r) ==
    r.kind = "str" /\ r.val.prefix = "Error:" /\ r.val.supported = f_supported

\* C8: for a template kind that is none of the three implemented ones
\* create_template returns the error value, never anything else; for an
\* implemented kind it returns the record structure of that kind (the error
\* value when the supported list leaves the kind out).
C8_ErrorValueOrStructure ==
    f_pc = "template" =>
        IF Lower(f_template) \notin Implemented THEN IsErrorValue(f_result)
        ELSE IF Lower(f_template) \notin f_supported THEN IsErrorValue(f_result)
        ELSE IF Lower(f_template) = "llama" THEN f_result.kind = "dict"
        ELSE f_result.kind = "list"

\* create_template has returned into data
Formatted ==
    \/ pc = "save"
    \/ pc = "done" /\ failure \in {"", "formatting", "exception"}

\* formatting failed: the error value, no value, or an empty result
FormattingFailed(d) ==
    \/ d.kind \in {"str", "none"}
    \/ d.kind = "list" /\ d.val = <<>>
    \/ d.kind = "dict" /\ d.val.conversations = <<>>

\* d holds every question with its answer, in the shape of the template
HoldsEveryPair(d) ==
    LET n == Len(generated_questions.val)
    IN  /\ Len(answers_questions) = n
        /\ CASE Lower(args.template) = "default" ->
                  /\ d.kind = "list" /\ Len(d.val) = n
                  /\ \A i \in 1..n :
                       /\ d.val[i].input = generated_questions.val[i]
                       /\ d.val[i].output = answers_questions[i]
             [] Lower(args.template) = "gemma" ->
                  /\ d.kind = "list" /\ Len(d.val) = 2 * n
                  /\ \A i \in 1..n :
                       /\ d.val[2 * i - 1].content = generated_questions.val[i]
                       /\ d.val[2 * i].content = answers_questions[i]
             [] Lower(args.template) = "llama" ->
                  /\ d.kind = "dict" /\ Len(d.val.conversations) = 2 * n
                  /\ \A i \in 1..n :
                       /\ d.val.conversations[2 * i - 1].value =
                              generated_questions.val[i]
                       /\ d.val.conversations[2 * i].value = answers_questions[i]
             [] OTHER -> FALSE

\* C9: when formatting failed the run has ended with status 1 and no JSON and
\* no CSV file; a file exists only for a record structure that holds every
\* question with its answer.
C9_NoFileWhenFormattingFails ==
    /\ (Formatted /\ FormattingFailed(data)) =>
            pc = "done" /\ exit_code = <<1>> /\ files = {}
    /\ files # {} => Formatted /\ HoldsEveryPair(data)

\* C9 witness: create_template returned its error value and the run ended
\* with status 1 without a file
C9_Witness ==
    /\ pc = "done" /\ failure = "formatting"
    /\ data.kind = "str" /\ data.val.prefix = "Error:"
    /\ Len(answers_questions) = 2
    /\ exit_code = <<1>> /\ files = {}

\* C10: when the model call for the questions returned a text the questions
\* of the run are exactly the parsed ones, whatever count was asked for; if
\* none was parsed the run ends with status 1 after that one model call,
\* with no answer, nothing formatted and no file; if some were parsed the run
\* goes on to answer exactly those.
C10_EmptyParseFailsMismatchProceeds ==
    response.kind = "str" =>
        LET parsed == parse_questions_from_response(response.val)
        IN  /\ generated_questions.kind = "list"
            /\ generated_questions.val = parsed
            /\ parsed = <<>> =>
                  /\ pc = "done" /\ exit_code = <<1>>
                  /\ Len(calls) = 1 /\ answers_questions = <<>>
                  /\ returned = <<>> /\ data = PyNone /\ files = {}
            /\ parsed # <<>> =>
                  /\ pc \in {"answer", "format", "save", "done"}
                  /\ failure \notin {"generation", "no questions"}
                  /\ AnsweringOver => Len(answers_questions) = Len(parsed)

\* C10 witness: the model returned a text with no question in it and the run
\* ended with status 1
C10_Witness ==
    /\ response.kind = "str" /\ response.val # <<>>
    /\ generated_questions = PyList(<<>>)
    /\ pc = "done" /\ exit_code = <<1>> /\ Len(calls) = 1

\* C4: every question the parser returns is a non-empty string.
C4_QuestionsNonEmpty ==
    p_pc = "parsed" => \A i \in 1..Len(p_questions) : p_questions[i] # <<>>

\* blanks inside a line
Blank == {" ", "\t"}

\* l is optional blanks, digits, a period, optional blanks, content
IsNumberedLine(l) ==
    LET a == SkipWhile(l, 1, Blank)
        b == SkipWhile(l, a, Digit)
    IN  b > a /\ b <= Len(l) /\ l[b] = "."

\* the content of a numbered line without its surrounding blanks and asterisks
ItemOf(l) ==
    LET b == SkipWhile(l, SkipWhile(l, 1, Blank), Digit)
    IN  StripChars(SubSeq(l, b + 1, Len(l)), Blank \cup {"*"})

\* t is made of numbered lines only
IsNumberedList(t) ==
    /\ t # <<>>
    /\ \A i \in 1..Len(SplitLines(t)) : IsNumberedLine(SplitLines(t)[i])

\* the items of the lines of t, in order
ItemsOf(t) == [i \in 1..Len(SplitLines(t)) |-> ItemOf(SplitLines(t)[i])]

\* C5: on a text made of numbered lines the parser returns one string per
\* line, in order, each the content of its line without the marker and the
\* surrounding blanks and asterisks (a line with no content left may be
\* passed over); nothing is merged with or taken from another line.
C5_OneItemPerNumberedLine ==
    (p_pc = "parsed" /\ IsNumberedList(p_text)) =>
        \/ p_questions = ItemsOf(p_text)
        \/ p_questions = SelectSeq(ItemsOf(p_text), LAMBDA q : q # <<>>)

\* the line l without its surrounding whitespace
Trimmed(l) == StripChars(l, Whitespace)

\* a list item: longer than two characters, starting with a digit or a bullet
IsMarked(l) == Len(l) > 2 /\ l[1] \in {"1", "-", "*"}

\* l after its leading digits, periods, dashes and asterisks and the
\* whitespace that follows them
Remainder(l) ==
    SubSeq(l, SkipWhile(l, SkipWhile(l, 1, {"1", ".", "-", "*"}), Whitespace), Len(l))

\* the number of whitespace-separated tokens of l
Tokens(l) ==
    Cardinality({i \in 1..Len(l) :
        l[i] \notin Whitespace /\ (i = 1 \/ l[i - 1] \in Whitespace)})

\* the fallback scan takes the line l
IsTaken(l) ==
    IF IsMarked(Trimmed(l)) THEN Contains(Remainder(Trimmed(l)), "?")
    ELSE Contains(l, "?") /\ Tokens(l) > 3

\* what the fallback scan returns for a line it takes
TakenAs(l) ==
    IF IsMarked(Trimmed(l)) THEN Remainder(Trimmed(l)) ELSE Trimmed(l)

RECURSIVE MapTaken(_)
MapTaken(ls) ==
    IF ls = <<>> THEN <<>> ELSE <<TakenAs(Head(ls))>> \o MapTaken(Tail(ls))

\* C6: the fallback scan decides the result only when the numbered-line
\* strategy found no question; then the result is, in order, the marked
\* lines whose remainder after the marker holds a question mark (as that
\* remainder) and the other lines that hold a question mark and more than
\* three tokens; a text without a question mark gives the empty list.
C6_FallbackScan ==
    p_pc = "parsed" =>
        IF PrimaryQuestions(p_text) # <<>> THEN p_questions = PrimaryQuestions(p_text)
        ELSE /\ p_questions = MapTaken(SelectSeq(SplitLines(p_text), IsTaken))
             /\ ~Contains(p_text, "?") => p_questions = <<>>

\* C6 witness: the numbered-line strategy found nothing and the scan took an
\* unmarked line of four tokens and a bullet line
C6_Witness ==
    /\ p_pc = "parsed"
    /\ PrimaryQuestions(p_text) = <<>>
    /\ p_questions = <<<<"a", " ", "a", " ", "a", " ", "a", "?">>, <<"a", "?">>>>

\* the six stages of main, in the order main.py writes them
StageOrder == <<"load", "check", "generate", "answer", "format", "save">>

\* save_dataset has been called
ReachedPersistence == Len(stages) = Len(StageOrder)

\* C11: a run that reaches persistence went through the six stages in
\* order and invoked the model exactly N+1 times for N parsed questions:
\* once to generate, then once per question in question-list order.
C11_StagesAndCalls ==
    ReachedPersistence =>
        /\ stages = StageOrder
        /\ Len(calls) = Len(generated_questions.val) + 1
        /\ calls[1] = "generate"
        /\ \A i \in 1..Len(generated_questions.val) : calls[i + 1] = i

\* formatting produced a non-empty record structure and the run has ended
EndedAfterFormatting == pc = "done" /\ Formatted /\ Saveable(data)

\* C12 as stated: once formatting has produced a non-empty, non-error record
\* structure the run ends with exit code 0, whatever happens in persistence.
C12_ExitZeroAfterFormatting ==
    EndedAfterFormatting => exit_code = <<0>>

\* C12 amended: once formatting has produced a non-empty, non-error record
\* structure, the run ends with exit code 0 whenever the output directory
\* could be created, whether or not the JSON write and the CSV write went
\* through, and the files present are exactly those whose write went through;
\* when the directory could not be created the run ends with exit code 1
\* and no file.
C12_ExitZeroUnlessMkdirFails ==
    EndedAfterFormatting =>
        /\ ReachedPersistence
        /\ exit_code = IF disk.mkdir THEN <<0>> ELSE <<1>>
        /\ "json" \in files <=> disk.mkdir /\ disk.json
        /\ "csv" \in files <=>
               /\ disk.mkdir /\ disk.csv
               /\ Lower(args.template) = "default" /\ data.kind = "list"

\* C12 witness: a default-template run whose JSON write and CSV write both
\* failed ended with exit code 0 and no file
C12_Witness ==
    /\ EndedAfterFormatting
    /\ Lower(args.template) = "default"
    /\ disk.mkdir /\ ~disk.json /\ ~disk.csv
    /\ exit_code = <<0>> /\ files = {}

\* check_ollama has returned
CheckRan == Len(stages) >= 2

\* the two selected models and the two configured default models
RequiredModels ==
    {args.model_gen, args.model_ret,
     DEFAULT_GEN_OLLAMA_MODEL, DEFAULT_RET_OLLAMA_MODEL}

\* the run stopped at the availability check, before any question
StoppedAtCheck ==
    /\ pc = "done" /\ failure = "model"
    /\ stages = <<"load", "check">>
    /\ calls = <<>> /\ response = PyNone /\ generated_questions = PyNone

\* C13: a run goes past the availability check only if the selected
\* generation model, the selected answering model and both configured
\* default models are installed; if any is missing, a default included
\* while the selected ones are installed, the run stops at the check with
\* no model call and no question.
C13_AllFourModelsRequired ==
    CheckRan =>
        IF RequiredModels \subseteq ollama.installed /\ ollama.up /\ ollama.lists
        THEN failure # "model" /\ (pc = "done" => Len(stages) > 2)
        ELSE StoppedAtCheck

\* C13 witness: both selected models are installed and are not the defaults,
\* a default is missing, and the run stopped at the check
C13_Witness ==
    /\ CheckRan
    /\ ollama.up /\ ollama.lists
    /\ args.model_gen = "other" /\ args.model_ret = "other"
    /\ "other" \in ollama.installed
    /\ DEFAULT_RET_OLLAMA_MODEL \notin ollama.installed
    /\ StoppedAtCheck


====
